---- MODULE Spec2Model ----
(***************************************************************************)
(* Model of arch/arm/src/kinetis/kinetis_rtc.c: the Kinetis RTC driver.    *)
(*                                                                         *)
(* The state is the RTC register file (TSR, TPR, SR, TAR, IER and the      *)
(* alarm flag TAF of SR), the driver's only software state (g_alarmcb),    *)
(* the CPU's interrupt mask, and for every execution context (host         *)
(* threads and the interrupt context) the position inside the driver       *)
(* function it is executing together with that function's arguments and    *)
(* locals.  Every C statement that touches shared state is one step, so    *)
(* that the counter may tick and the alarm interrupt may be taken between  *)
(* any two statements that the code does not protect.                      *)
(***************************************************************************)
EXTENDS Integers, Sequences, FiniteSets, TLC

\* ------------------------------------------------------------------------
\* Bounds of the model
\* ------------------------------------------------------------------------

\* CONFIG_RTC_FREQUENCY: ticks of the prescaler per second (32768 on the
\* real part; scaled down, the arithmetic of lines 173 and 199 is kept).
CONFIG_RTC_FREQUENCY == 3

\* The seconds counter runs from 0 up to MaxSec and then stops ticking.
MaxSec == 2

\* Number of driver calls (host calls and calls made by a callback) per run.
MaxCalls == 3

\* The loop counter of up_rtc_gettime saturates at MaxIters.
MaxIters == 3

\* ------------------------------------------------------------------------
\* Program constants
\* ------------------------------------------------------------------------

NSEC_PER_SEC == 1000000000

RTC_SR_TCE == 16

RTC_IER_TAIE == 4

NULL == "NULL"

Callbacks == {"cbA", "cbB"}

Hosts == {"h1", "h2"}

Contexts == Hosts \cup {"isr"}

VARIABLES
  RTC_TSR,      \* seconds counter register
  RTC_TPR,      \* prescaler (fraction) register
  RTC_SR,       \* status register, counter enable bit (0 or RTC_SR_TCE)
  RTC_TAR,      \* alarm compare register
  RTC_IER,      \* interrupt enable register (0 or RTC_IER_TAIE)
  TAF,          \* SR[TAF], the pending alarm flag
  g_alarmcb,    \* static alarmcb_t g_alarmcb
  primask,      \* TRUE while the CPU has interrupts disabled
  running,      \* the host context that owns the CPU
  isrpc,        \* position of kinetis_rtc_interrupt
  pc,           \* per context: position inside the driver function called
  arg,          \* per context: arguments of the call
  loc,          \* per context: locals of the call
  ret,          \* per context: last call and its result
  \* history variables, read by the properties only
  ncalls,       \* driver calls made so far
  stored,       \* per callback: times line 242 stored it
  invoked,      \* per callback: times line 311 called it
  cancelDone,   \* a cancel returned OK and no set_alarm has succeeded since
  fired,        \* the callback the handler found at line 308 and its count,
                \* and whether that handler has completed with no
                \* set_alarm tested since
  wlog,         \* register writes of the up_rtc_settime call in progress/last
  lastSet,      \* the timespec of the last completed up_rtc_settime
  sinceSet,     \* counter ticks since that call re-enabled the counter
  lastGet,      \* result of the last up_rtc_gettime since the last settime
  iters,        \* iterations of the do-while loop in the current gettime
  callWraps,    \* prescaler wrap-arounds since the current gettime started
  iterTicks,    \* ticks since the first prescaler read of the iteration
  wrapP_S,      \* a wrap happened between reading prescaler and seconds
  roundTrip,    \* a settime and the first gettime that completed after it
  entry         \* per context: the interrupt mask and the counter value
                \* when its up_rtc_gettime or up_rtc_settime was called

hw == <<RTC_TSR, RTC_TPR, RTC_SR, RTC_TAR, RTC_IER, TAF>>
cpu == <<primask, running, isrpc>>
ctx == <<pc, arg, loc, ret>>
alarmHist == <<stored, invoked, cancelDone, fired>>
timeHist == <<wlog, lastSet, sinceSet, lastGet, iters, callWraps, iterTicks,
             wrapP_S, roundTrip, entry>>
vars == <<hw, g_alarmcb, cpu, ctx, ncalls, alarmHist, timeHist>>

NoArg == [sec |-> 0, nsec |-> 0, cb |-> NULL]
NoLoc == [flags |-> FALSE, seconds |-> 0, prescaler |-> 0, prescaler2 |-> 0]
NoRet == [op |-> "none", val |-> "none", sec |-> 0, nsec |-> 0]
NoFired == [cb |-> NULL, count |-> 0, done |-> FALSE]
NoTime == [valid |-> FALSE, sec |-> 0, nsec |-> 0]
NoEntry == [mask |-> FALSE, sec |-> 0, prescaler |-> 0]
NoRoundTrip == [valid |-> FALSE, ticks |-> 0, set |-> NoTime,
                got |-> [sec |-> 0, nsec |-> 0]]

\* State after up_rtc_initialize: counter enabled, interrupts of the RTC
\* disabled, g_alarmcb zero-initialised; the time is whatever was retained.
Init ==
  /\ RTC_TSR \in 0..1
  /\ RTC_TPR \in 0..(CONFIG_RTC_FREQUENCY - 1)
  /\ RTC_SR = RTC_SR_TCE
  /\ RTC_TAR = 0
  /\ RTC_IER = 0
  /\ TAF \in BOOLEAN
  /\ g_alarmcb = NULL
  /\ primask = FALSE
  /\ running = "h1"
  /\ isrpc = "idle"
  /\ pc = [c \in Contexts |-> "idle"]
  /\ arg = [c \in Contexts |-> NoArg]
  /\ loc = [c \in Contexts |-> NoLoc]
  /\ ret = [c \in Contexts |-> NoRet]
  /\ ncalls = 0
  /\ stored = [cb \in Callbacks |-> 0]
  /\ invoked = [cb \in Callbacks |-> 0]
  /\ cancelDone = FALSE
  /\ fired = NoFired
  /\ wlog = <<>>
  /\ lastSet = NoTime
  /\ sinceSet = 0
  /\ lastGet = NoTime
  /\ iters = 0
  /\ callWraps = 0
  /\ iterTicks = 0
  /\ wrapP_S = FALSE
  /\ roundTrip = NoRoundTrip
  /\ entry = [c \in Contexts |-> NoEntry]

\* ------------------------------------------------------------------------
\* Scheduling on the single core
\* ------------------------------------------------------------------------

\* A host runs when it owns the CPU and no interrupt handler is active; the
\* interrupt context runs driver code only from inside the alarm callback.
CanRun(c) ==
  IF c = "isr" THEN isrpc = "callback"
  ELSE isrpc = "idle" /\ running = c

CanCall(c) == CanRun(c) /\ pc[c] = "idle" /\ ncalls < MaxCalls

Return(c, op, val) ==
  /\ pc' = [pc EXCEPT ![c] = "idle"]
  /\ arg' = [arg EXCEPT ![c] = NoArg]
  /\ loc' = [loc EXCEPT ![c] = NoLoc]
  /\ ret' = [ret EXCEPT ![c] = [op |-> op, val |-> val, sec |-> 0, nsec |-> 0]]

Goto(c, label) ==
  /\ pc' = [pc EXCEPT ![c] = label]
  /\ UNCHANGED <<arg, loc, ret>>

\* ------------------------------------------------------------------------
\* kinetis_rtc_setalarm
\* ------------------------------------------------------------------------

kinetis_rtc_setalarm_call(c) ==
  /\ CanCall(c)
  /\ \E s \in 0..MaxSec, cb \in Callbacks :
       arg' = [arg EXCEPT ![c] = [sec |-> s, nsec |-> 0, cb |-> cb]]
  /\ pc' = [pc EXCEPT ![c] = "setalarm_238"]
  /\ ret' = [ret EXCEPT ![c] = [NoRet EXCEPT !.op = "setalarm"]]
  /\ ncalls' = ncalls + 1
  /\ UNCHANGED <<hw, g_alarmcb, cpu, loc, alarmHist, timeHist>>

\* mutant: line 238 without the test of g_alarmcb
kinetis_rtc_setalarm_238_nocheck(c) ==
  /\ CanRun(c) /\ pc[c] = "setalarm_238"
  /\ Goto(c, "setalarm_242")
  /\ fired' = NoFired
  /\ UNCHANGED <<hw, g_alarmcb, cpu, ncalls, stored, invoked, cancelDone,
                 timeHist>>

\* line 238: if (g_alarmcb == NULL) ... else return -EBUSY
kinetis_rtc_setalarm_238(c) ==
  /\ CanRun(c) /\ pc[c] = "setalarm_238"
  /\ IF g_alarmcb = NULL
       THEN Goto(c, "setalarm_242")
       ELSE Return(c, "setalarm", "-EBUSY")
  /\ fired' = NoFired
  /\ UNCHANGED <<hw, g_alarmcb, cpu, ncalls, stored, invoked, cancelDone,
                 timeHist>>

\* line 242: g_alarmcb = callback
kinetis_rtc_setalarm_242(c) ==
  /\ CanRun(c) /\ pc[c] = "setalarm_242"
  /\ g_alarmcb' = arg[c].cb
  /\ stored' = [stored EXCEPT ![arg[c].cb] = @ + 1]
  /\ Goto(c, "setalarm_246")
  /\ UNCHANGED <<hw, cpu, ncalls, invoked, cancelDone, fired, timeHist>>

\* line 246: putreg32(tp->tv_sec, KINETIS_RTC_TAR), which resets the flag
kinetis_rtc_setalarm_246(c) ==
  /\ CanRun(c) /\ pc[c] = "setalarm_246"
  /\ RTC_TAR' = arg[c].sec
  /\ TAF' = FALSE
  /\ Goto(c, "setalarm_247")
  /\ UNCHANGED <<RTC_TSR, RTC_TPR, RTC_SR, RTC_IER, g_alarmcb, cpu, ncalls,
                 alarmHist, timeHist>>

\* lines 247-249: putreg32(RTC_IER_TAIE, KINETIS_RTC_IER); return OK
kinetis_rtc_setalarm_247(c) ==
  /\ CanRun(c) /\ pc[c] = "setalarm_247"
  /\ RTC_IER' = RTC_IER_TAIE
  /\ cancelDone' = FALSE
  /\ Return(c, "setalarm", "OK")
  /\ UNCHANGED <<RTC_TSR, RTC_TPR, RTC_SR, RTC_TAR, TAF, g_alarmcb, cpu,
                 ncalls, stored, invoked, fired, timeHist>>

\* ------------------------------------------------------------------------
\* kinetis_rtc_cancelalarm
\* ------------------------------------------------------------------------

kinetis_rtc_cancelalarm_call(c) ==
  /\ CanCall(c)
  /\ pc' = [pc EXCEPT ![c] = "cancelalarm_273"]
  /\ ret' = [ret EXCEPT ![c] = [NoRet EXCEPT !.op = "cancelalarm"]]
  /\ ncalls' = ncalls + 1
  /\ UNCHANGED <<hw, g_alarmcb, cpu, arg, loc, alarmHist, timeHist>>

\* mutant: line 273 without the test of g_alarmcb
kinetis_rtc_cancelalarm_273_nocheck(c) ==
  /\ CanRun(c) /\ pc[c] = "cancelalarm_273"
  /\ Goto(c, "cancelalarm_277")
  /\ UNCHANGED <<hw, g_alarmcb, cpu, ncalls, alarmHist, timeHist>>

\* line 273: if (g_alarmcb != NULL) ... else return -ENODATA
kinetis_rtc_cancelalarm_273(c) ==
  /\ CanRun(c) /\ pc[c] = "cancelalarm_273"
  /\ IF g_alarmcb # NULL
       THEN Goto(c, "cancelalarm_277")
       ELSE Return(c, "cancelalarm", "-ENODATA")
  /\ UNCHANGED <<hw, g_alarmcb, cpu, ncalls, alarmHist, timeHist>>

\* line 277: g_alarmcb = NULL
kinetis_rtc_cancelalarm_277(c) ==
  /\ CanRun(c) /\ pc[c] = "cancelalarm_277"
  /\ g_alarmcb' = NULL
  /\ Goto(c, "cancelalarm_281")
  /\ UNCHANGED <<hw, cpu, ncalls, alarmHist, timeHist>>

\* mutant: line 281 missing, the alarm interrupt stays enabled
kinetis_rtc_cancelalarm_281_noier(c) ==
  /\ CanRun(c) /\ pc[c] = "cancelalarm_281"
  /\ cancelDone' = TRUE
  /\ Return(c, "cancelalarm", "OK")
  /\ UNCHANGED <<hw, g_alarmcb, cpu, ncalls, stored, invoked, fired, timeHist>>

\* mutant: cancel_alarm also clears the compare register
kinetis_rtc_cancelalarm_281_cleartar(c) ==
  /\ CanRun(c) /\ pc[c] = "cancelalarm_281"
  /\ RTC_TAR' = 0
  /\ TAF' = FALSE
  /\ RTC_IER' = 0
  /\ cancelDone' = TRUE
  /\ Return(c, "cancelalarm", "OK")
  /\ UNCHANGED <<RTC_TSR, RTC_TPR, RTC_SR, g_alarmcb, cpu, ncalls, stored,
                 invoked, fired, timeHist>>

\* lines 281-283: putreg32(0, KINETIS_RTC_IER); return OK
kinetis_rtc_cancelalarm_281(c) ==
  /\ CanRun(c) /\ pc[c] = "cancelalarm_281"
  /\ RTC_IER' = 0
  /\ cancelDone' = TRUE
  /\ Return(c, "cancelalarm", "OK")
  /\ UNCHANGED <<RTC_TSR, RTC_TPR, RTC_SR, RTC_TAR, TAF, g_alarmcb, cpu,
                 ncalls, stored, invoked, fired, timeHist>>

\* ------------------------------------------------------------------------
\* kinetis_rtc_interrupt
\* ------------------------------------------------------------------------

\* The RTC interrupt is requested while the alarm flag is set and enabled
\* in IER; the CPU takes it when interrupts are not masked.
InterruptRequested == RTC_IER = RTC_IER_TAIE /\ TAF

kinetis_rtc_interrupt_entry ==
  /\ isrpc = "idle"
  /\ InterruptRequested
  /\ ~primask
  /\ isrpc' = "isr_308"
  /\ UNCHANGED <<hw, g_alarmcb, primask, running, ctx, ncalls, alarmHist,
                 timeHist>>

\* mutant: the handler returns at once when no callback is stored
kinetis_rtc_interrupt_308_return ==
  /\ isrpc = "isr_308"
  /\ isrpc' = IF g_alarmcb # NULL THEN "isr_311" ELSE "idle"
  /\ fired' = [cb |-> g_alarmcb,
               count |-> IF g_alarmcb # NULL THEN invoked[g_alarmcb] ELSE 0,
               done |-> FALSE]
  /\ UNCHANGED <<hw, g_alarmcb, primask, running, ctx, ncalls, stored,
                 invoked, cancelDone, timeHist>>

\* line 308: if (g_alarmcb != NULL)
kinetis_rtc_interrupt_308 ==
  /\ isrpc = "isr_308"
  /\ isrpc' = IF g_alarmcb # NULL THEN "isr_311" ELSE "isr_316"
  /\ fired' = [cb |-> g_alarmcb,
               count |-> IF g_alarmcb # NULL THEN invoked[g_alarmcb] ELSE 0,
               done |-> FALSE]
  /\ UNCHANGED <<hw, g_alarmcb, primask, running, ctx, ncalls, stored,
                 invoked, cancelDone, timeHist>>

\* line 311: g_alarmcb(), control passes to the host's callback
kinetis_rtc_interrupt_311 ==
  /\ isrpc = "isr_311"
  /\ invoked' = [invoked EXCEPT ![g_alarmcb] = @ + 1]
  /\ isrpc' = "callback"
  /\ UNCHANGED <<hw, g_alarmcb, primask, running, ctx, ncalls, stored,
                 cancelDone, fired, timeHist>>

\* the callback returns to line 312
callback_return ==
  /\ isrpc = "callback"
  /\ pc["isr"] = "idle"
  /\ isrpc' = "isr_312"
  /\ UNCHANGED <<hw, g_alarmcb, primask, running, ctx, ncalls, alarmHist,
                 timeHist>>

\* mutant: line 312 missing, the callback stays stored
kinetis_rtc_interrupt_312_keep ==
  /\ isrpc = "isr_312"
  /\ isrpc' = "isr_316"
  /\ UNCHANGED <<hw, g_alarmcb, primask, running, ctx, ncalls, alarmHist,
                 timeHist>>

\* line 312: g_alarmcb = NULL
kinetis_rtc_interrupt_312 ==
  /\ isrpc = "isr_312"
  /\ g_alarmcb' = NULL
  /\ isrpc' = "isr_316"
  /\ UNCHANGED <<hw, primask, running, ctx, ncalls, alarmHist, timeHist>>

\* line 316: putreg32(0, KINETIS_RTC_TAR), which resets the flag
kinetis_rtc_interrupt_316 ==
  /\ isrpc = "isr_316"
  /\ RTC_TAR' = 0
  /\ TAF' = FALSE
  /\ isrpc' = "isr_317"
  /\ UNCHANGED <<RTC_TSR, RTC_TPR, RTC_SR, RTC_IER, g_alarmcb, primask,
                 running, ctx, ncalls, alarmHist, timeHist>>

\* mutant: line 317 missing, the alarm interrupt stays enabled
kinetis_rtc_interrupt_317_noier ==
  /\ isrpc = "isr_317"
  /\ isrpc' = "idle"
  /\ fired' = [fired EXCEPT !.done = (fired.cb # NULL)]
  /\ UNCHANGED <<hw, g_alarmcb, primask, running, ctx, ncalls, stored,
                 invoked, cancelDone, timeHist>>

\* lines 317-319: putreg32(0, KINETIS_RTC_IER); return 0
kinetis_rtc_interrupt_317 ==
  /\ isrpc = "isr_317"
  /\ RTC_IER' = 0
  /\ isrpc' = "idle"
  /\ fired' = [fired EXCEPT !.done = (fired.cb # NULL)]
  /\ UNCHANGED <<RTC_TSR, RTC_TPR, RTC_SR, RTC_TAR, TAF, g_alarmcb, primask,
                 running, ctx, ncalls, stored, invoked, cancelDone, timeHist>>

\* ------------------------------------------------------------------------
\* The hardware counter
\* ------------------------------------------------------------------------

Min(a, b) == IF a < b THEN a ELSE b

\* some context is inside the do-while loop of up_rtc_gettime
InGettimeLoop ==
  \E c \in Contexts :
    pc[c] \in {"gettime_164", "gettime_165", "gettime_166", "gettime_168"}

\* some context is between the two prescaler reads of one iteration
BetweenPrescalerReads ==
  \E c \in Contexts : pc[c] \in {"gettime_165", "gettime_166"}

\* One tick of the 32.768 kHz input: the prescaler increments and, when it
\* wraps around, the seconds counter increments; the alarm flag is set when
\* the seconds counter increments while it equals the compare register.
Tick ==
  /\ RTC_SR = RTC_SR_TCE
  /\ RTC_TSR < MaxSec \/ RTC_TPR < CONFIG_RTC_FREQUENCY - 1
  /\ IF RTC_TPR = CONFIG_RTC_FREQUENCY - 1
       THEN /\ RTC_TPR' = 0
            /\ RTC_TSR' = RTC_TSR + 1
            /\ TAF' = (TAF \/ RTC_TAR = RTC_TSR)
            /\ callWraps' = IF InGettimeLoop THEN Min(callWraps + 1, 2)
                                             ELSE callWraps
            /\ wrapP_S' = (wrapP_S \/ \E c \in Contexts : pc[c] = "gettime_165")
       ELSE /\ RTC_TPR' = RTC_TPR + 1
            /\ UNCHANGED <<RTC_TSR, TAF, callWraps, wrapP_S>>
  /\ sinceSet' = IF lastSet.valid THEN Min(sinceSet + 1, 2) ELSE sinceSet
  /\ iterTicks' = IF BetweenPrescalerReads
                    THEN Min(iterTicks + 1, CONFIG_RTC_FREQUENCY)
                    ELSE iterTicks
  /\ UNCHANGED <<RTC_SR, RTC_TAR, RTC_IER, g_alarmcb, cpu, ctx, ncalls,
                 alarmHist, wlog, lastSet, lastGet, iters, roundTrip, entry>>

\* ------------------------------------------------------------------------
\* up_rtc_gettime (CONFIG_RTC_HIRES)
\* ------------------------------------------------------------------------

\* line 173: 1000000000 / CONFIG_RTC_FREQUENCY, the length of one tick
NsecPerTick == NSEC_PER_SEC \div CONFIG_RTC_FREQUENCY

up_rtc_gettime_call(c) ==
  /\ CanCall(c)
  /\ pc' = [pc EXCEPT ![c] = "gettime_161"]
  /\ ret' = [ret EXCEPT ![c] = [NoRet EXCEPT !.op = "gettime"]]
  /\ ncalls' = ncalls + 1
  /\ roundTrip' = NoRoundTrip
  /\ entry' = [entry EXCEPT ![c] = [mask |-> primask, sec |-> RTC_TSR,
                                     prescaler |-> RTC_TPR]]
  /\ UNCHANGED <<hw, g_alarmcb, cpu, arg, loc, alarmHist, wlog, lastSet,
                 sinceSet, lastGet, iters, callWraps, iterTicks, wrapP_S>>

\* line 161: flags = enter_critical_section()
up_rtc_gettime_161(c) ==
  /\ CanRun(c) /\ pc[c] = "gettime_161"
  /\ loc' = [loc EXCEPT ![c].flags = primask]
  /\ primask' = TRUE
  /\ pc' = [pc EXCEPT ![c] = "gettime_164"]
  /\ iters' = 0
  /\ callWraps' = 0
  /\ UNCHANGED <<hw, g_alarmcb, running, isrpc, arg, ret, ncalls, alarmHist,
                 wlog, lastSet, sinceSet, lastGet, iterTicks, wrapP_S,
                 roundTrip,
                 entry>>

\* line 164: prescaler = getreg32(KINETIS_RTC_TPR)
up_rtc_gettime_164(c) ==
  /\ CanRun(c) /\ pc[c] = "gettime_164"
  /\ loc' = [loc EXCEPT ![c].prescaler = RTC_TPR]
  /\ pc' = [pc EXCEPT ![c] = "gettime_165"]
  /\ iters' = Min(iters + 1, MaxIters)
  /\ iterTicks' = 0
  /\ wrapP_S' = FALSE
  /\ UNCHANGED <<hw, g_alarmcb, cpu, arg, ret, ncalls, alarmHist, wlog,
                 lastSet, sinceSet, lastGet, callWraps, roundTrip,
                 entry>>

\* line 165: seconds = getreg32(KINETIS_RTC_TSR)
up_rtc_gettime_165(c) ==
  /\ CanRun(c) /\ pc[c] = "gettime_165"
  /\ loc' = [loc EXCEPT ![c].seconds = RTC_TSR]
  /\ pc' = [pc EXCEPT ![c] = "gettime_166"]
  /\ UNCHANGED <<hw, g_alarmcb, cpu, arg, ret, ncalls, alarmHist, timeHist>>

\* line 166: prescaler2 = getreg32(KINETIS_RTC_TPR)
up_rtc_gettime_166(c) ==
  /\ CanRun(c) /\ pc[c] = "gettime_166"
  /\ loc' = [loc EXCEPT ![c].prescaler2 = RTC_TPR]
  /\ pc' = [pc EXCEPT ![c] = "gettime_168"]
  /\ UNCHANGED <<hw, g_alarmcb, cpu, arg, ret, ncalls, alarmHist, timeHist>>

\* mutant: the loop never repeats (a plain three-register read)
LoopRepeats_never(prescaler, prescaler2) == FALSE

\* mutant: the comparison of line 168 reversed
LoopRepeats_reversed(prescaler, prescaler2) == prescaler < prescaler2

\* mutant: the comparison of line 168 misses a second reading that is
\* smaller by one
LoopRepeats_offbyone(prescaler, prescaler2) == prescaler > prescaler2 + 1

\* mutant: the loop repeats until two equal readings
LoopRepeats_notequal(prescaler, prescaler2) == prescaler # prescaler2

\* line 168: while (prescaler > prescaler2)
LoopRepeats(prescaler, prescaler2) == prescaler > prescaler2

up_rtc_gettime_168(c) ==
  /\ CanRun(c) /\ pc[c] = "gettime_168"
  /\ pc' = [pc EXCEPT ![c] =
              IF LoopRepeats(loc[c].prescaler, loc[c].prescaler2)
                THEN "gettime_164" ELSE "gettime_169"]
  /\ UNCHANGED <<hw, g_alarmcb, cpu, arg, loc, ret, ncalls, alarmHist,
                 timeHist>>

\* line 173: tp->tv_nsec = prescaler * (1000000000 / CONFIG_RTC_FREQUENCY)
TicksToNsec(prescaler) == prescaler * (NSEC_PER_SEC \div CONFIG_RTC_FREQUENCY)

\* mutant: line 169 enables interrupts instead of restoring the saved flags
up_rtc_gettime_169_enable(c) ==
  /\ CanRun(c) /\ pc[c] = "gettime_169"
  /\ primask' = FALSE
  /\ LET tv_sec == loc[c].seconds
         tv_nsec == TicksToNsec(loc[c].prescaler)
     IN /\ ret' = [ret EXCEPT ![c] = [op |-> "gettime", val |-> "OK",
                                      sec |-> tv_sec, nsec |-> tv_nsec]]
        /\ lastGet' = [valid |-> TRUE, sec |-> tv_sec, nsec |-> tv_nsec]
        /\ roundTrip' = [valid |-> lastSet.valid, ticks |-> sinceSet,
                         set |-> lastSet,
                         got |-> [sec |-> tv_sec, nsec |-> tv_nsec]]
  /\ lastSet' = NoTime
  /\ sinceSet' = 0
  /\ pc' = [pc EXCEPT ![c] = "idle"]
  /\ loc' = [loc EXCEPT ![c] = NoLoc]
  /\ UNCHANGED <<hw, g_alarmcb, running, isrpc, arg, ncalls, alarmHist, wlog,
                 iters, callWraps, iterTicks, wrapP_S>>
  /\ entry' = [entry EXCEPT ![c] = NoEntry]

\* lines 169-174: leave_critical_section(flags); build *tp; return OK
up_rtc_gettime_169(c) ==
  /\ CanRun(c) /\ pc[c] = "gettime_169"
  /\ primask' = loc[c].flags
  /\ LET tv_sec == loc[c].seconds
         tv_nsec == TicksToNsec(loc[c].prescaler)
     IN /\ ret' = [ret EXCEPT ![c] = [op |-> "gettime", val |-> "OK",
                                      sec |-> tv_sec, nsec |-> tv_nsec]]
        /\ lastGet' = [valid |-> TRUE, sec |-> tv_sec, nsec |-> tv_nsec]
        /\ roundTrip' = [valid |-> lastSet.valid, ticks |-> sinceSet,
                         set |-> lastSet,
                         got |-> [sec |-> tv_sec, nsec |-> tv_nsec]]
  /\ lastSet' = NoTime
  /\ sinceSet' = 0
  /\ pc' = [pc EXCEPT ![c] = "idle"]
  /\ loc' = [loc EXCEPT ![c] = NoLoc]
  /\ UNCHANGED <<hw, g_alarmcb, running, isrpc, arg, ncalls, alarmHist, wlog,
                 iters, callWraps, iterTicks, wrapP_S>>
  /\ entry' = [entry EXCEPT ![c] = NoEntry]

\* ------------------------------------------------------------------------
\* up_rtc_settime
\* ------------------------------------------------------------------------

\* the tv_nsec values passed by the callers: the start and the end of
\* every tick of the second
NsecInputs ==
  UNION {{k * NsecPerTick, k * NsecPerTick + (NsecPerTick - 1)} :
           k \in 0..(CONFIG_RTC_FREQUENCY - 1)}

\* line 199: prescaler = tp->tv_nsec * (CONFIG_RTC_FREQUENCY / 1000000000)
NsecToTicks(tv_nsec) == tv_nsec * (CONFIG_RTC_FREQUENCY \div NSEC_PER_SEC)

\* lines 198-199: seconds = tp->tv_sec; prescaler = ...
up_rtc_settime_call(c) ==
  /\ CanCall(c)
  /\ \E s \in 0..(MaxSec - 1), n \in NsecInputs :
       /\ arg' = [arg EXCEPT ![c] = [sec |-> s, nsec |-> n, cb |-> NULL]]
       /\ loc' = [loc EXCEPT ![c] = [NoLoc EXCEPT !.seconds = s,
                                                  !.prescaler = NsecToTicks(n)]]
  /\ pc' = [pc EXCEPT ![c] = "settime_201"]
  /\ ret' = [ret EXCEPT ![c] = [NoRet EXCEPT !.op = "settime"]]
  /\ ncalls' = ncalls + 1
  /\ wlog' = <<>>
  /\ roundTrip' = NoRoundTrip
  /\ entry' = [entry EXCEPT ![c] = [NoEntry EXCEPT !.mask = primask]]
  /\ UNCHANGED <<hw, g_alarmcb, cpu, alarmHist, lastSet, sinceSet, lastGet,
                 iters, callWraps, iterTicks, wrapP_S>>

\* mutant: line 201 saves the flags but does not disable interrupts
up_rtc_settime_201_nomask(c) ==
  /\ CanRun(c) /\ pc[c] = "settime_201"
  /\ loc' = [loc EXCEPT ![c].flags = primask]
  /\ pc' = [pc EXCEPT ![c] = "settime_203"]
  /\ UNCHANGED <<hw, g_alarmcb, primask, running, isrpc, arg, ret, ncalls,
                 alarmHist, timeHist>>

\* line 201: flags = enter_critical_section()
up_rtc_settime_201(c) ==
  /\ CanRun(c) /\ pc[c] = "settime_201"
  /\ loc' = [loc EXCEPT ![c].flags = primask]
  /\ primask' = TRUE
  /\ pc' = [pc EXCEPT ![c] = "settime_203"]
  /\ UNCHANGED <<hw, g_alarmcb, running, isrpc, arg, ret, ncalls, alarmHist,
                 timeHist>>

\* line 203: putreg32(0, KINETIS_RTC_SR)
up_rtc_settime_203(c) ==
  /\ CanRun(c) /\ pc[c] = "settime_203"
  /\ RTC_SR' = 0
  /\ wlog' = Append(wlog, [reg |-> "SR", val |-> 0, stopped |-> RTC_SR = 0])
  /\ lastGet' = NoTime
  /\ lastSet' = NoTime
  /\ sinceSet' = 0
  /\ Goto(c, "settime_205")
  /\ UNCHANGED <<RTC_TSR, RTC_TPR, RTC_TAR, RTC_IER, TAF, g_alarmcb, cpu,
                 ncalls, alarmHist, iters, callWraps, iterTicks, wrapP_S,
                 roundTrip,
                 entry>>

\* mutant: the seconds register is written where line 205 writes the
\* prescaler
up_rtc_settime_205_seconds(c) ==
  /\ CanRun(c) /\ pc[c] = "settime_205"
  /\ RTC_TSR' = loc[c].seconds
  /\ wlog' = Append(wlog, [reg |-> "TSR", val |-> loc[c].seconds,
                           stopped |-> RTC_SR = 0])
  /\ Goto(c, "settime_206")
  /\ UNCHANGED <<RTC_TPR, RTC_SR, RTC_TAR, RTC_IER, TAF, g_alarmcb, cpu,
                 ncalls, alarmHist, lastSet, sinceSet, lastGet, iters,
                 callWraps, iterTicks, wrapP_S, roundTrip,
                 entry>>

\* line 205: putreg32(prescaler, KINETIS_RTC_TPR)
up_rtc_settime_205(c) ==
  /\ CanRun(c) /\ pc[c] = "settime_205"
  /\ RTC_TPR' = loc[c].prescaler
  /\ wlog' = Append(wlog, [reg |-> "TPR", val |-> loc[c].prescaler,
                           stopped |-> RTC_SR = 0])
  /\ Goto(c, "settime_206")
  /\ UNCHANGED <<RTC_TSR, RTC_SR, RTC_TAR, RTC_IER, TAF, g_alarmcb, cpu,
                 ncalls, alarmHist, lastSet, sinceSet, lastGet, iters,
                 callWraps, iterTicks, wrapP_S, roundTrip,
                 entry>>

\* line 206: putreg32(seconds, KINETIS_RTC_TSR)
up_rtc_settime_206(c) ==
  /\ CanRun(c) /\ pc[c] = "settime_206"
  /\ RTC_TSR' = loc[c].seconds
  /\ wlog' = Append(wlog, [reg |-> "TSR", val |-> loc[c].seconds,
                           stopped |-> RTC_SR = 0])
  /\ Goto(c, "settime_208")
  /\ UNCHANGED <<RTC_TPR, RTC_SR, RTC_TAR, RTC_IER, TAF, g_alarmcb, cpu,
                 ncalls, alarmHist, lastSet, sinceSet, lastGet, iters,
                 callWraps, iterTicks, wrapP_S, roundTrip,
                 entry>>

\* line 208: putreg32(RTC_SR_TCE, KINETIS_RTC_SR)
up_rtc_settime_208(c) ==
  /\ CanRun(c) /\ pc[c] = "settime_208"
  /\ RTC_SR' = RTC_SR_TCE
  /\ wlog' = Append(wlog, [reg |-> "SR", val |-> RTC_SR_TCE,
                           stopped |-> RTC_SR = 0])
  /\ lastSet' = [valid |-> TRUE, sec |-> arg[c].sec, nsec |-> arg[c].nsec]
  /\ sinceSet' = 0
  /\ Goto(c, "settime_210")
  /\ UNCHANGED <<RTC_TSR, RTC_TPR, RTC_TAR, RTC_IER, TAF, g_alarmcb, cpu,
                 ncalls, alarmHist, lastGet, iters, callWraps, iterTicks,
                 wrapP_S, roundTrip,
                 entry>>

\* lines 210-212: leave_critical_section(flags); return OK
up_rtc_settime_210(c) ==
  /\ CanRun(c) /\ pc[c] = "settime_210"
  /\ primask' = loc[c].flags
  /\ Return(c, "settime", "OK")
  /\ entry' = [entry EXCEPT ![c] = NoEntry]
  /\ UNCHANGED <<hw, g_alarmcb, running, isrpc, ncalls, alarmHist, wlog,
                 lastSet, sinceSet, lastGet, iters, callWraps, iterTicks,
                 wrapP_S, roundTrip>>

\* ------------------------------------------------------------------------
\* Specification of the alarm state machine: one host context, the alarm
\* interrupt, the callback (which may itself call the driver) and the
\* counter.
\* ------------------------------------------------------------------------

AlarmStep(c) ==
  \/ kinetis_rtc_setalarm_call(c)
  \/ kinetis_rtc_setalarm_238(c)
  \/ kinetis_rtc_setalarm_242(c)
  \/ kinetis_rtc_setalarm_246(c)
  \/ kinetis_rtc_setalarm_247(c)
  \/ kinetis_rtc_cancelalarm_call(c)
  \/ kinetis_rtc_cancelalarm_273(c)
  \/ kinetis_rtc_cancelalarm_277(c)
  \/ kinetis_rtc_cancelalarm_281(c)

InterruptStep ==
  \/ kinetis_rtc_interrupt_entry
  \/ kinetis_rtc_interrupt_308
  \/ kinetis_rtc_interrupt_311
  \/ callback_return
  \/ kinetis_rtc_interrupt_312
  \/ kinetis_rtc_interrupt_316
  \/ kinetis_rtc_interrupt_317

NextAlarm ==
  \/ \E c \in Contexts : AlarmStep(c)
  \/ InterruptStep
  \/ Tick

SpecAlarm == Init /\ [][NextAlarm]_vars

\* ------------------------------------------------------------------------
\* Specification of the time keeper: one host context reading and writing
\* the time while the counter runs.
\* ------------------------------------------------------------------------

TimeStep(c) ==
  \/ up_rtc_gettime_call(c)
  \/ up_rtc_gettime_161(c)
  \/ up_rtc_gettime_164(c)
  \/ up_rtc_gettime_165(c)
  \/ up_rtc_gettime_166(c)
  \/ up_rtc_gettime_168(c)
  \/ up_rtc_gettime_169(c)
  \/ up_rtc_settime_call(c)
  \/ up_rtc_settime_201(c)
  \/ up_rtc_settime_203(c)
  \/ up_rtc_settime_205(c)
  \/ up_rtc_settime_206(c)
  \/ up_rtc_settime_208(c)
  \/ up_rtc_settime_210(c)

NextTime ==
  \/ \E c \in Hosts : TimeStep(c)
  \/ Tick

SpecTime == Init /\ [][NextTime]_vars

\* ------------------------------------------------------------------------
\* Host threads: preemption and critical sections held by the caller
\* ------------------------------------------------------------------------

\* With interrupts enabled the scheduler may switch to another host thread
\* between any two statements; enter_critical_section (lines 161 and 201)
\* is what prevents it.
Preempt ==
  /\ isrpc = "idle"
  /\ ~primask
  /\ \E h \in Hosts : h # running /\ running' = h
  /\ UNCHANGED <<hw, g_alarmcb, primask, isrpc, ctx, ncalls, alarmHist,
                 timeHist>>

\* The running host, outside the driver, enters a critical section of its
\* own: the driver is then called with interrupts already disabled.
caller_enter_critical ==
  /\ isrpc = "idle"
  /\ pc[running] = "idle"
  /\ ~primask
  /\ primask' = TRUE
  /\ UNCHANGED <<hw, g_alarmcb, running, isrpc, ctx, ncalls, alarmHist,
                 timeHist>>

caller_leave_critical ==
  /\ isrpc = "idle"
  /\ pc[running] = "idle"
  /\ primask
  /\ primask' = FALSE
  /\ UNCHANGED <<hw, g_alarmcb, running, isrpc, ctx, ncalls, alarmHist,
                 timeHist>>

\* ------------------------------------------------------------------------
\* Specification of the alarm state machine with two host threads that
\* preempt each other.
\* ------------------------------------------------------------------------

NextAlarmPreempt ==
  \/ \E c \in Contexts : AlarmStep(c)
  \/ InterruptStep
  \/ Preempt
  \/ Tick

SpecAlarmPreempt == Init /\ [][NextAlarmPreempt]_vars

\* ------------------------------------------------------------------------
\* Specification of the critical sections: a host thread reads and writes
\* the time, with and without a critical section of its own, while an
\* armed alarm makes the RTC interrupt arrive and its callback reads the
\* time.
\* ------------------------------------------------------------------------

\* The state in which all but two of the calls of the run have been made
\* by host h1 in the last tick of second 0: cancel_alarm calls on the empty
\* slot, which returned -ENODATA and changed nothing, and then
\* kinetis_rtc_setalarm(now, cbA), which returned OK.  The alarm is due at
\* the next tick.
InitArmed ==
  /\ RTC_TSR = 0
  /\ RTC_TPR = CONFIG_RTC_FREQUENCY - 1
  /\ RTC_SR = RTC_SR_TCE
  /\ RTC_TAR = RTC_TSR
  /\ RTC_IER = RTC_IER_TAIE
  /\ TAF = FALSE
  /\ g_alarmcb = "cbA"
  /\ primask = FALSE
  /\ running = "h1"
  /\ isrpc = "idle"
  /\ pc = [c \in Contexts |-> "idle"]
  /\ arg = [c \in Contexts |-> NoArg]
  /\ loc = [c \in Contexts |-> NoLoc]
  /\ ret = [c \in Contexts |->
              IF c = "h1" THEN [NoRet EXCEPT !.op = "setalarm", !.val = "OK"]
                          ELSE NoRet]
  /\ ncalls = MaxCalls - 2
  /\ stored = [cb \in Callbacks |-> IF cb = "cbA" THEN 1 ELSE 0]
  /\ invoked = [cb \in Callbacks |-> 0]
  /\ cancelDone = FALSE
  /\ fired = NoFired
  /\ wlog = <<>>
  /\ lastSet = NoTime
  /\ sinceSet = 0
  /\ lastGet = NoTime
  /\ iters = 0
  /\ callWraps = 0
  /\ iterTicks = 0
  /\ wrapP_S = FALSE
  /\ roundTrip = NoRoundTrip
  /\ entry = [c \in Contexts |-> NoEntry]

GettimeStep(c) ==
  \/ up_rtc_gettime_call(c)
  \/ up_rtc_gettime_161(c)
  \/ up_rtc_gettime_164(c)
  \/ up_rtc_gettime_165(c)
  \/ up_rtc_gettime_166(c)
  \/ up_rtc_gettime_168(c)
  \/ up_rtc_gettime_169(c)

\* One host, which may hold the interrupt mask of its own when it calls the
\* time functions, and the alarm interrupt, whose callback reads the time.
NextCritical ==
  \/ TimeStep("h1")
  \/ GettimeStep("isr")
  \/ InterruptStep
  \/ caller_enter_critical
  \/ caller_leave_critical
  \/ Tick

SpecCritical == InitArmed /\ [][NextCritical]_vars

\* ------------------------------------------------------------------------
\* Properties
\* ------------------------------------------------------------------------

\* context c leaves the statement at label in this step
Leaves(c, label) == pc[c] = label /\ pc'[c] # label

\* no driver function and no interrupt handler is in progress
Quiescent == isrpc = "idle" /\ \A c \in Contexts : pc[c] = "idle"

TimeLE(a, b) == a.sec < b.sec \/ (a.sec = b.sec /\ a.nsec <= b.nsec)

Abs(x) == IF x < 0 THEN -x ELSE x

\* no callback has been called more often than line 242 stored it
NeverInvokedUnstored == \A cb \in Callbacks : invoked[cb] <= stored[cb]

\* C1: single-slot exclusion.  A set_alarm that finds the slot populated at
\* line 238 returns -EBUSY and leaves g_alarmcb, TAR and IER as they were,
\* and stores nothing; a callback is only ever invoked as often as a
\* set_alarm stored it, so the rejected callback is never invoked for the
\* rejected call.
C1_SingleSlotExclusion ==
  /\ [][\A c \in Contexts :
          Leaves(c, "setalarm_238") /\ g_alarmcb # NULL
            => /\ pc'[c] = "idle"
               /\ ret'[c].op = "setalarm" /\ ret'[c].val = "-EBUSY"
               /\ UNCHANGED <<g_alarmcb, RTC_TAR, RTC_IER, stored>>]_vars
  /\ []NeverInvokedUnstored

C1_Witness ==
  /\ ret["h1"].op = "setalarm" /\ ret["h1"].val = "-EBUSY"
  /\ pc["h1"] = "idle"
  /\ g_alarmcb = "cbA" /\ RTC_IER = RTC_IER_TAIE
  /\ stored["cbB"] = 0 /\ invoked["cbB"] = 0

\* C2: fire-then-reuse.  When the handler finds a callback at line 308 it
\* has invoked that callback exactly once when it returns, and the slot is
\* then empty; no callback is invoked more often than it was stored; and
\* the next set_alarm after such a handler passes the test of line 238 and
\* returns OK.
C2_FireThenReuse ==
  /\ [][isrpc = "isr_317" /\ isrpc' = "idle" /\ fired.cb # NULL
          => /\ invoked'[fired.cb] = fired.count + 1
             /\ g_alarmcb' = NULL]_vars
  /\ []NeverInvokedUnstored
  /\ [][\A c \in Contexts :
          /\ Leaves(c, "setalarm_238") /\ fired.done
               => pc'[c] = "setalarm_242"
          /\ Leaves(c, "setalarm_247")
               => ret'[c].val = "OK" /\ g_alarmcb' = g_alarmcb]_vars

C2_Witness ==
  /\ Quiescent
  /\ invoked["cbA"] = 1 /\ stored["cbA"] = 1
  /\ stored["cbB"] = 1 /\ invoked["cbB"] = 0
  /\ g_alarmcb = "cbB" /\ RTC_IER = RTC_IER_TAIE
  /\ ret["h1"].op = "setalarm" /\ ret["h1"].val = "OK"

\* C3: cancel-then-no-fire.  From the return of a successful cancel_alarm
\* until the next successful set_alarm the alarm interrupt is disabled and
\* no callback is invoked.
C3_CancelThenNoFire ==
  /\ [](cancelDone => RTC_IER = 0)
  /\ [][cancelDone => invoked' = invoked]_vars

\* the counter passed the programmed compare value after the cancel
C3_Witness ==
  /\ cancelDone /\ Quiescent
  /\ TAF /\ RTC_TAR < RTC_TSR
  /\ stored["cbA"] = 1 /\ invoked["cbA"] = 0

\* C4: cancel-when-idle.  A cancel_alarm that finds the slot empty at line
\* 273 returns -ENODATA and writes neither g_alarmcb nor any register.
C4_CancelWhenIdle ==
  [][\A c \in Contexts :
       Leaves(c, "cancelalarm_273") /\ g_alarmcb = NULL
         => /\ pc'[c] = "idle"
            /\ ret'[c].op = "cancelalarm" /\ ret'[c].val = "-ENODATA"
            /\ UNCHANGED <<g_alarmcb, hw>>]_vars

\* the slot was empty because the alarm had fired
C4_Witness ==
  /\ ret["h1"].op = "cancelalarm" /\ ret["h1"].val = "-ENODATA"
  /\ Quiescent
  /\ stored["cbA"] = 1 /\ invoked["cbA"] = 1
  /\ g_alarmcb = NULL /\ RTC_IER = 0

\* C5: round trip.  A gettime that completes no more than one tick after a
\* settime re-enabled the counter returns the seconds written and a
\* nanosecond value within one tick of the nanoseconds written.
C5_RoundTrip ==
  roundTrip.valid /\ roundTrip.ticks <= 1
    => /\ roundTrip.got.sec = roundTrip.set.sec
       /\ Abs(roundTrip.got.nsec - roundTrip.set.nsec) <= NsecPerTick

\* C6: monotonicity.  The time returned by a gettime is not less than the
\* time returned by the gettime before it when no settime came between.
C6_Monotonic ==
  [][\A c \in Contexts :
       Leaves(c, "gettime_169") /\ lastGet.valid
         => TimeLE(lastGet, lastGet')]_vars

\* a second gettime whose loop repeated is about to return
C6_Witness ==
  /\ pc["h1"] = "gettime_169"
  /\ lastGet.valid
  /\ iters >= 2

WriteOrder == <<"SR", "TPR", "TSR", "SR">>

C8_WriteOrdering ==
  /\ Len(wlog) <= Len(WriteOrder)
  /\ \A i \in 1..Len(wlog) : wlog[i].reg = WriteOrder[i]
  /\ Len(wlog) >= 1 => wlog[1].val = 0
  /\ Len(wlog) >= 2 => wlog[2].stopped
  /\ Len(wlog) >= 3 => wlog[3].stopped
  /\ Len(wlog) >= 4 => wlog[4].val = RTC_SR_TCE
  /\ \A c \in Contexts :
       /\ pc[c] = "settime_210" => Len(wlog) = Len(WriteOrder)
       /\ pc[c] = "settime_205" => Len(wlog) = 1
       /\ pc[c] = "settime_206" => Len(wlog) = 2
       /\ pc[c] = "settime_208" => Len(wlog) = 3

C8_Witness ==
  /\ pc["h1"] = "settime_210"
  /\ Len(wlog) = 4
  /\ RTC_TSR = arg["h1"].sec

C10_SlotAtomicity ==
  isrpc # "idle"
    => \A c \in Hosts :
         pc[c] \notin {"setalarm_242", "setalarm_246", "setalarm_247",
                       "cancelalarm_277", "cancelalarm_281"}

\* the labels of up_rtc_settime between its first register write (line 203)
\* and its last (line 208)
WriteWindow == {"settime_205", "settime_206", "settime_208"}

\* the labels of up_rtc_gettime at which a register value has been read and
\* is held in a local
ReadWindow == {"gettime_165", "gettime_166", "gettime_168", "gettime_169"}

\* C11: write_time atomicity.  While a context is between the first and the
\* last register write of up_rtc_settime, interrupts are masked, the
\* interrupt handler neither starts nor advances, no other context takes a
\* step of a driver function, and no other context holds register values
\* it read from the counter.
C11_WriteAtomic ==
  [][\A c \in Contexts :
       pc[c] \in WriteWindow
         => /\ primask
            /\ isrpc' = isrpc
            /\ c # "isr" => isrpc = "idle"
            /\ \A d \in Contexts \ {c} :
                 pc'[d] = pc[d] /\ pc[d] \notin ReadWindow]_vars

\* the counter is stopped in the middle of the sequence, the caller had
\* interrupts enabled, and the alarm interrupt is requested but held off
C11_Witness ==
  /\ pc["h1"] = "settime_206"
  /\ RTC_SR = 0
  /\ ~entry["h1"].mask
  /\ InterruptRequested
  /\ isrpc = "idle"

\* C12: critical-section restoration.  up_rtc_gettime and up_rtc_settime
\* return with the interrupt mask equal to the mask at the time of the
\* call, whether interrupts were enabled or disabled then and whether the
\* loop of up_rtc_gettime ran once or repeated.
C12_MaskRestored ==
  [][\A c \in Contexts :
       Leaves(c, "gettime_169") \/ Leaves(c, "settime_210")
         => primask' = entry[c].mask]_vars

\* a read entered with interrupts disabled has returned with them disabled
\* after its loop repeated
C12_Witness ==
  /\ pc["h1"] = "idle"
  /\ ret["h1"].op = "gettime" /\ ret["h1"].val = "OK"
  /\ primask
  /\ iters >= 2

\* C13: nanosecond-to-tick conversion.  The value line 205 writes to the
\* prescaler register is the number of whole ticks in tv_nsec,
\* tv_nsec \div (1000000000 \div CONFIG_RTC_FREQUENCY), which is nonzero
\* when tv_nsec is at least one tick.
C13_NsecToTicksInverse ==
  \A c \in Contexts :
    pc[c] = "settime_206"
      => /\ RTC_TPR = arg[c].nsec \div NsecPerTick
         /\ arg[c].nsec >= NsecPerTick => RTC_TPR # 0

\* lexicographic order on (seconds, prescaler) counter values
CounterLE(s1, p1, s2, p2) == s1 < s2 \/ (s1 = s2 /\ p1 <= p2)

\* C14: the loop is correct under arbitrary delays.  Whatever number of
\* ticks and wrap-arounds elapse between the register reads, the pair
\* up_rtc_gettime returns lies between the counter value when the call was
\* made and the counter value when it returns, in lexicographic order.
C14_ResultWithinCall ==
  [][\A c \in Contexts :
       Leaves(c, "gettime_169")
         => /\ CounterLE(entry[c].sec, entry[c].prescaler,
                         loc[c].seconds, loc[c].prescaler)
            /\ CounterLE(loc[c].seconds, loc[c].prescaler,
                         RTC_TSR, RTC_TPR)
            /\ ret'[c].sec = loc[c].seconds
            /\ ret'[c].nsec = TicksToNsec(loc[c].prescaler)]_vars

\* a read during which the prescaler wrapped around twice and the loop
\* repeated has returned
C14_Witness ==
  /\ pc["h1"] = "idle"
  /\ ret["h1"].op = "gettime" /\ ret["h1"].val = "OK"
  /\ callWraps = 2
  /\ iters >= 2

\* C16: bounded iterations.  An iteration during which the counter does not
\* advance between the two prescaler reads is the last one; a call during
\* which the prescaler does not wrap around runs the loop exactly once, and
\* a call during which it wraps around at most once runs the loop at most
\* twice.
C16_BoundedIterations ==
  [][\A c \in Contexts :
       /\ Leaves(c, "gettime_168") /\ iterTicks = 0 => pc'[c] = "gettime_169"
       /\ Leaves(c, "gettime_168") /\ pc'[c] = "gettime_169"
            => /\ callWraps = 0 => iters = 1
               /\ callWraps <= 1 => iters <= 2]_vars

\* a read during which the prescaler wrapped around once has returned after
\* two iterations
C16_Witness ==
  /\ pc["h1"] = "idle"
  /\ ret["h1"].op = "gettime" /\ ret["h1"].val = "OK"
  /\ callWraps = 1
  /\ iters = 2

\* C15: defensive clear.  Every return of kinetis_rtc_interrupt leaves
\* g_alarmcb empty, TAR 0 and IER 0; the handler's own steps up to and
\* including the return of the callback write neither register; a handler
\* that finds no callback at line 308 goes straight to the clears, invokes
\* nothing and reports nothing to any caller; and a callback is only ever
\* invoked by line 311 with the slot populated.
C15_DefensiveClear ==
  /\ [][isrpc # "idle" /\ isrpc' = "idle"
          => g_alarmcb' = NULL /\ RTC_TAR' = 0 /\ RTC_IER' = 0]_vars
  /\ [][(isrpc \in {"isr_308", "isr_311", "callback", "isr_312"}
           /\ isrpc' # isrpc)
          => UNCHANGED <<RTC_TAR, RTC_IER>>]_vars
  /\ [][isrpc = "isr_308" /\ g_alarmcb = NULL /\ isrpc' # isrpc
          => isrpc' = "isr_316" /\ UNCHANGED <<invoked, ret>>]_vars
  /\ [][invoked' # invoked => isrpc = "isr_311" /\ g_alarmcb # NULL]_vars

\* the handler has run and returned with no callback stored: it interrupted
\* a cancel_alarm after line 277, invoked nothing and cleared TAR and IER
C15_Witness ==
  /\ isrpc = "idle"
  /\ pc["h1"] = "cancelalarm_281"
  /\ g_alarmcb = NULL /\ RTC_TAR = 0 /\ RTC_IER = 0
  /\ stored["cbA"] = 1
  /\ \A cb \in Callbacks : invoked[cb] = 0

\* C17: the alarm operations leave the clock untouched.  No step of
\* kinetis_rtc_setalarm, kinetis_rtc_cancelalarm or kinetis_rtc_interrupt,
\* whatever it returns, changes SR, TSR or TPR; the steps of a cancel_alarm
\* that found the slot populated leave TAR as it is, and its return writes
\* IER 0 with the slot empty.
C17_ClockUntouched ==
  /\ [][pc' # pc \/ isrpc' # isrpc
          => UNCHANGED <<RTC_SR, RTC_TSR, RTC_TPR>>]_vars
  /\ [][\A c \in Contexts :
          Leaves(c, "cancelalarm_277") \/ Leaves(c, "cancelalarm_281")
            => UNCHANGED RTC_TAR]_vars
  /\ [][\A c \in Contexts :
          Leaves(c, "cancelalarm_281")
            => /\ ret'[c].op = "cancelalarm" /\ ret'[c].val = "OK"
               /\ g_alarmcb' = NULL /\ RTC_IER' = 0]_vars

\* a cancel_alarm has succeeded and the compare register still holds the
\* nonzero alarm time that was programmed
C17_Witness ==
  /\ Quiescent
  /\ ret["h1"].op = "cancelalarm" /\ ret["h1"].val = "OK"
  /\ cancelDone
  /\ RTC_TAR > 0
  /\ g_alarmcb = NULL /\ RTC_IER = 0
  /\ RTC_SR = RTC_SR_TCE

\* C18: cancel and fire are mutually exclusive.  When one alarm has been
\* armed, the callback has made no driver call of its own and the host's
\* cancel_alarm has returned OK, the callback of that alarm has not been
\* invoked.
C18_CancelXorFire ==
  \A cb \in Callbacks :
    /\ stored[cb] = 1
    /\ \A other \in Callbacks \ {cb} : stored[other] = 0
    /\ ret["isr"].op = "none"
    /\ ret["h1"].op = "cancelalarm" /\ ret["h1"].val = "OK"
    => invoked[cb] = 0

\* C19: single-slot exclusion under preemption.  When the only two driver
\* calls made are a set_alarm by each of the two hosts and no callback has
\* been invoked, the two calls have not both returned OK.
C19_OneWinner ==
  ~ /\ ncalls = 2
    /\ \A h \in Hosts : ret[h].op = "setalarm" /\ ret[h].val = "OK"
    /\ \A cb \in Callbacks : invoked[cb] = 0

\* C20: no re-arm from inside the callback.  A set_alarm called from the
\* alarm callback has returned -EBUSY whenever it has returned, and when
\* the handler has completed the slot is empty, TAR is 0 and IER is 0.
C20_NoRearmInCallback ==
  /\ ret["isr"].op = "setalarm" /\ pc["isr"] = "idle"
       => ret["isr"].val = "-EBUSY"
  /\ fired.done => g_alarmcb = NULL /\ RTC_TAR = 0 /\ RTC_IER = 0

====
